---- MODULE Spec2Model ----
(***************************************************************************)
(* SecurityAirlock (gateware/src/packet.py): a synchronous, cycle-stepped  *)
(* byte-stream filter.  One clock cycle is modelled in two steps, as the   *)
(* Amaranth testbenches do it: Drive sets the input pins for the cycle     *)
(* (ctx.set), Tick is the clock edge (ctx.tick) that commits every         *)
(* m.d.sync assignment of elaborate() at once.  Combinational signals      *)
(* (m.d.comb) are operators over the registers and the driven inputs.      *)
(* Where the code assigns a register more than once in a cycle, the last   *)
(* assignment in program order wins, as in Amaranth.                       *)
(***************************************************************************)
EXTENDS Integers, Naturals, Sequences, FiniteSets, TLC

VARIABLES
    \* construction-time parameters (SecurityAirlock.__init__)
    HEARTBEAT_TIMEOUT, VOLUME_LIMIT,
    \* constants fixed at the head of elaborate(), scaled per specification
    ARP_LEAK_INTERVAL, ARP_BURST_LIMIT,
    \* number of values of the register volume_cnt (2 ^ its width) and the
    \* largest value of byte_ptr (2 ^ its width - 1), scaled per specification
    VOLUME_CNT_MOD, BYTE_PTR_MAX,
    \* input pins, valid while phase = "tick"
    rx_data, rx_valid, rx_last, tx_ready, heartbeat_in, rst_lock, egress_mode,
    \* registers
    locked, drop_current, flush_state,
    violation_volume, violation_ttl, violation_wg_size, violation_plaintext,
    violation_heartbeat, violation_ethertype, violation_arp_rate,
    violation_ip_proto, violation_arp_size, violation_frag,
    violation_ip_options, violation_arp_opcode, violation_land,
    violation_loopback, violation_tcp_flags, violation_tcp_options,
    violation_udp_len,
    tcp_flags_high_bit, watchdog_timer, last_heartbeat,
    volume_cnt, byte_ptr, is_ip, ip_len, ip_hdr_len, ttl, src_ip, dst_ip,
    ip_proto, udp_len_reg, is_arp, arp_bucket, arp_leak_timer,
    arp_opcode_high, plaintext_cnt,
    \* position inside the cycle: "drive" (inputs not yet set) or "tick"
    phase,
    \* observers (not part of the design): cycles since the last heartbeat
    \* toggle or reset, and what happened to the frame now on the wire
    quiet, frame_fwd, frame_hit, frame_rst,
    \* observers: frame-end tallies since the last rst_lock
    n_rx_last, n_tx_last, n_flush_last,
    \* observer: bytes of the valid TCP frame presented so far in the frame on
    \* the wire, 0 between frames, -1 while any other frame is on the wire
    syn_sent,
    \* observer: the bytes of the frame on the wire consumed so far outside
    \* flush, as the testbench sent them
    frame_seen,
    \* observer: watchdog_timer as it was on the cycle before (the register
    \* watchdog_timer_d of verify/proof.py)
    watchdog_timer_d,
    \* observer: volume_cnt has been at or above VOLUME_LIMIT on a cycle
    \* since the last rst_lock
    volume_spent

inputs == <<rx_data, rx_valid, rx_last, tx_ready, heartbeat_in, rst_lock,
            egress_mode>>

params == <<HEARTBEAT_TIMEOUT, VOLUME_LIMIT, ARP_LEAK_INTERVAL, ARP_BURST_LIMIT,
            VOLUME_CNT_MOD, BYTE_PTR_MAX>>

latches == <<violation_volume, violation_ttl, violation_wg_size,
             violation_plaintext, violation_heartbeat, violation_ethertype,
             violation_arp_rate, violation_ip_proto, violation_arp_size,
             violation_frag, violation_ip_options, violation_arp_opcode,
             violation_land, violation_loopback, violation_tcp_flags,
             violation_tcp_options, violation_udp_len>>

regs == <<locked, drop_current, flush_state, latches, tcp_flags_high_bit,
          watchdog_timer, last_heartbeat, volume_cnt, byte_ptr, is_ip, ip_len,
          ip_hdr_len, ttl, src_ip, dst_ip, ip_proto, udp_len_reg, is_arp,
          arp_bucket, arp_leak_timer, arp_opcode_high, plaintext_cnt>>

observers == <<quiet, frame_fwd, frame_hit, frame_rst>>

tallies == <<n_rx_last, n_tx_last, n_flush_last>>

tracking == <<syn_sent>>

history == <<frame_seen>>

past == <<watchdog_timer_d, volume_spent>>

vars == <<params, inputs, regs, phase, observers, tallies, tracking, history,
          past>>

----------------------------------------------------------------------------
(* Bounds of the model.                                                    *)

\* heartbeat_timeout handed to the constructor (tests and proof.py use 10)
HeartbeatTimeout == 2
\* volume_limit handed to the constructor (test_volume_limit uses 100)
VolumeLimit == 2
\* longest frame the environment sends outside flush, in bytes
MaxFrame == 4
\* the environment stops sending once volume_cnt has reached this
MaxVolume == 4
\* tallies stop the run's traffic once this many frame ends were seen
MaxTally == 2
\* ARP_LEAK_INTERVAL (10000 in the source) and ARP_BURST_LIMIT (4000 in the
\* source), scaled down so that the leak timer stays small
ArpLeakInterval == 1
ArpBurstLimit == 3

(* Values the source fixes: the default volume_limit of the constructor,   *)
(* the ARP rate constants of elaborate(), the 27 bits of volume_cnt and the *)
(* 17 bits of byte_ptr.                                                     *)
VolumeLimitDefault == 99614720
ArpLeakIntervalSource == 10000
ArpBurstLimitSource == 4000
VolumeCntModSource == 134217728
BytePtrMaxSource == 131071

(* Widths of the registers that are truncated on assignment.               *)
ARP_BUCKET_MAX == 65535
ARP_LEAK_TIMER_MOD == 16384

\* bytes the environment puts on rx_data: zero and a non-zero byte (0x45)
Data == {0, 69}

----------------------------------------------------------------------------
(* Bit helpers for the slices and masks of the source.                     *)

RECURSIVE BitAnd(_, _)
BitAnd(a, b) ==
    IF a = 0 \/ b = 0 THEN 0
    ELSE (IF a % 2 = 1 /\ b % 2 = 1 THEN 1 ELSE 0) + 2 * BitAnd(a \div 2, b \div 2)

\* word with byte number i (0 = least significant) replaced by d
SetByte(word, i, d) ==
    LET lo == 256 ^ i
    IN  word + (d - ((word \div lo) % 256)) * lo

----------------------------------------------------------------------------
(* Combinatorial allow rules (packet.py 91-205).                           *)

traffic_violation ==
    \/ violation_volume \/ violation_ttl \/ violation_wg_size
    \/ violation_plaintext \/ violation_ethertype \/ violation_arp_rate
    \/ violation_ip_proto \/ violation_arp_size \/ violation_frag
    \/ violation_ip_options \/ violation_arp_opcode \/ violation_land
    \/ violation_loopback \/ violation_tcp_flags \/ violation_tcp_options
    \/ violation_udp_len

check_ethertype == byte_ptr = 13
allow_ethertype == is_ip /\ (rx_data = 0 \/ rx_data = 6)

check_ttl == is_ip /\ byte_ptr = 22
\* mutant: the TTL floor is raised above the 64 of the test frames
allow_ttl_above_64 == rx_data > 64

allow_ttl == rx_data >= 60

header_end_ptr == 14 + ip_hdr_len * 4 - 1

check_min_size == is_ip /\ byte_ptr = header_end_ptr /\ byte_ptr > 14
allow_min_size == ip_len >= 28 /\ (ip_proto # 6 \/ ip_len >= 40)

\* mutant: trailing garbage is not checked on the last byte of a frame
check_trailing_mid_frame ==
    is_ip /\ byte_ptr > 17 /\ byte_ptr >= 14 + ip_len /\ byte_ptr >= 64
        /\ ~rx_last

check_trailing ==
    is_ip /\ byte_ptr > 17 /\ byte_ptr >= 14 + ip_len /\ byte_ptr >= 64
allow_trailing == FALSE

check_truncation == is_ip /\ rx_last
allow_truncation ==
    /\ byte_ptr >= 14 + ip_len - 1
    /\ ip_len >= 28
    /\ (ip_proto # 6 \/ ip_len >= 40)

\* mutant: a frame of 13 or 14 bytes is not a runt
check_runt_below_12 == rx_last /\ byte_ptr < 12

check_runt == rx_last /\ byte_ptr < 14

is_printable ==
    \/ (rx_data >= 32 /\ rx_data <= 126)
    \/ rx_data = 10 \/ rx_data = 13 \/ rx_data = 9
check_plaintext == (is_ip \/ is_arp) /\ is_printable
allow_plaintext == plaintext_cnt < 127

check_volume == TRUE
allow_volume == volume_cnt < VOLUME_LIMIT

check_arp_rate == is_arp
allow_arp_rate == arp_bucket < ARP_BURST_LIMIT

check_protocol == is_ip /\ byte_ptr = 23
allow_protocol == rx_data = 6 \/ rx_data = 17

check_arp_size == is_arp /\ byte_ptr > 63
allow_arp_size == FALSE

check_frag_flags == is_ip /\ byte_ptr = 20
\* mutant: the DF bit is not masked out
allow_frag_flags_no_df == rx_data = 0

allow_frag_flags == BitAnd(rx_data, 191) = 0

check_frag_offset == is_ip /\ byte_ptr = 21
allow_frag_offset == rx_data = 0

check_ip_options == is_ip /\ byte_ptr = 14
allow_ip_options == rx_data = 69

check_arp_opcode == is_arp /\ byte_ptr = 21
allow_arp_opcode == arp_opcode_high = 0 /\ (rx_data = 1 \/ rx_data = 2)

check_land == is_ip /\ byte_ptr = 33
allow_land == src_ip # SetByte(dst_ip, 0, rx_data)

check_loopback == is_ip /\ (byte_ptr = 26 \/ byte_ptr = 30)
allow_loopback == rx_data # 127

check_tcp_options == is_ip /\ ip_proto = 6 /\ byte_ptr = 46
allow_tcp_options == rx_data = 80

check_tcp_flags == is_ip /\ ip_proto = 6 /\ byte_ptr = 47
full_tcp_flags == rx_data + 256 * (IF tcp_flags_high_bit THEN 1 ELSE 0)
allow_tcp_flags == full_tcp_flags \in {2, 18, 16, 24, 1, 17, 4, 20}

full_udp_len_comb == SetByte(udp_len_reg, 0, rx_data)
check_udp_len == is_ip /\ ip_proto = 17 /\ byte_ptr = 39
allow_udp_len == full_udp_len_comb >= 8 /\ full_udp_len_comb = ip_len - 20

violation_now ==
    rx_valid /\
      ( \/ (check_ethertype /\ ~allow_ethertype)
        \/ (check_ttl /\ ~allow_ttl)
        \/ (check_min_size /\ ~allow_min_size)
        \/ check_runt
        \/ (check_trailing /\ ~allow_trailing)
        \/ (check_truncation /\ ~allow_truncation)
        \/ (check_plaintext /\ ~allow_plaintext)
        \/ (check_volume /\ ~allow_volume)
        \/ (check_arp_rate /\ ~allow_arp_rate)
        \/ (check_protocol /\ ~allow_protocol)
        \/ (check_arp_size /\ ~allow_arp_size)
        \/ (check_frag_flags /\ ~allow_frag_flags)
        \/ (check_frag_offset /\ ~allow_frag_offset)
        \/ (check_ip_options /\ ~allow_ip_options)
        \/ (check_arp_opcode /\ ~allow_arp_opcode)
        \/ (check_land /\ ~allow_land)
        \/ (check_loopback /\ ~allow_loopback)
        \/ (check_tcp_flags /\ ~allow_tcp_flags)
        \/ (check_tcp_options /\ ~allow_tcp_options)
        \/ (check_udp_len /\ ~allow_udp_len) )

any_violation == traffic_violation \/ violation_now

status_led == ~locked

----------------------------------------------------------------------------
(* Traffic flow control (packet.py 256-268).                               *)

force_terminate == (drop_current \/ violation_now) /\ rx_last /\ ~locked

\* mutant: the gate forgets the lock itself
gate_tx_without_lock ==
    \/ drop_current \/ rst_lock \/ flush_state
    \/ traffic_violation \/ violation_heartbeat \/ violation_now

gate_tx ==
    \/ locked \/ drop_current \/ rst_lock \/ flush_state
    \/ traffic_violation \/ violation_heartbeat \/ violation_now

tx_data == IF force_terminate THEN 0 ELSE rx_data

\* mutant: the egress is valid whenever the gate is open, byte or no byte
tx_valid_without_rx_valid == ~gate_tx \/ force_terminate

tx_valid == (rx_valid /\ ~gate_tx) \/ force_terminate

tx_last == rx_last

\* mutant: the ingress is always ready, downstream stalled or not
rx_ready_always == TRUE

rx_ready == tx_ready \/ gate_tx

rx_fire == rx_valid /\ rx_ready

----------------------------------------------------------------------------
(* Next value of every register: the m.d.sync assignments of elaborate(),  *)
(* the last one in program order taking effect.                            *)

\* mutant: the processing loop runs on every valid byte, accepted or not
proc_on_valid == rx_valid /\ ~locked

\* guard of the packet processing loop: with m.If(rx_fire & ~self.locked)
proc == rx_fire /\ ~locked

runt_or_truncated == (check_truncation /\ ~allow_truncation) \/ check_runt

\* mutant: the lock is released at the end of a frame, like drop_current
locked_next_frame_scoped ==
    IF proc /\ ~flush_state /\ rx_last /\ ~egress_mode
            /\ (byte_ptr < 13 \/ runt_or_truncated)
    THEN TRUE
    ELSE IF rst_lock \/ (rx_fire /\ rx_last) THEN FALSE
    ELSE IF violation_heartbeat THEN TRUE
    ELSE IF any_violation /\ ~egress_mode THEN TRUE
    ELSE locked

\* mutant: only latched violations lock, the rule failing now does not
locked_next_latched_only ==
    IF proc /\ ~flush_state /\ rx_last /\ ~egress_mode
            /\ (byte_ptr < 13 \/ runt_or_truncated)
    THEN TRUE
    ELSE IF rst_lock THEN FALSE
    ELSE IF violation_heartbeat THEN TRUE
    ELSE IF traffic_violation /\ ~egress_mode THEN TRUE
    ELSE locked

\* mutant: the heartbeat violation locks in ingress mode only
locked_next_heartbeat_by_mode ==
    IF proc /\ ~flush_state /\ rx_last /\ ~egress_mode
            /\ (byte_ptr < 13 \/ runt_or_truncated)
    THEN TRUE
    ELSE IF rst_lock THEN FALSE
    ELSE IF (violation_heartbeat \/ any_violation) /\ ~egress_mode THEN TRUE
    ELSE locked

\* mutant: the end-of-frame runt / truncation lock ignores egress_mode
locked_next_runt_any_mode ==
    IF proc /\ ~flush_state /\ rx_last
            /\ (byte_ptr < 13 \/ runt_or_truncated)
    THEN TRUE
    ELSE IF rst_lock THEN FALSE
    ELSE IF violation_heartbeat THEN TRUE
    ELSE IF any_violation /\ ~egress_mode THEN TRUE
    ELSE locked

locked_next ==
    IF proc /\ ~flush_state /\ rx_last /\ ~egress_mode
            /\ (byte_ptr < 13 \/ runt_or_truncated)
    THEN TRUE
    ELSE IF rst_lock THEN FALSE
    ELSE IF violation_heartbeat THEN TRUE
    ELSE IF any_violation /\ ~egress_mode THEN TRUE
    ELSE locked

drop_current_next ==
    IF rst_lock THEN FALSE
    ELSE IF proc /\ rx_last THEN FALSE
    ELSE IF ~violation_heartbeat /\ any_violation /\ egress_mode /\ ~rx_last
    THEN TRUE
    ELSE drop_current

flush_state_next ==
    IF proc /\ flush_state /\ rx_last THEN FALSE
    ELSE IF flush_state /\ ~rx_valid THEN FALSE
    ELSE IF rst_lock THEN TRUE
    ELSE flush_state

volume_cnt_next ==
    IF rst_lock THEN 0
    ELSE IF proc THEN (volume_cnt + 1) % VOLUME_CNT_MOD
    ELSE volume_cnt

\* mutant: byte_ptr is incremented without the saturation test and wraps
\* in its 17 bits
byte_ptr_next_wrapping ==
    IF rst_lock THEN 0
    ELSE IF ~proc THEN byte_ptr
    ELSE IF flush_state THEN (IF rx_last THEN 0 ELSE byte_ptr)
    ELSE IF rx_last THEN 0
    ELSE (byte_ptr + 1) % (BYTE_PTR_MAX + 1)

byte_ptr_next ==
    IF rst_lock THEN 0
    ELSE IF ~proc THEN byte_ptr
    ELSE IF flush_state THEN (IF rx_last THEN 0 ELSE byte_ptr)
    ELSE IF rx_last THEN 0
    ELSE IF byte_ptr < BYTE_PTR_MAX THEN byte_ptr + 1
    ELSE byte_ptr

\* mutant: the ARP EtherType leaves is_ip set
is_ip_next_kept_for_arp ==
    IF rst_lock THEN FALSE
    ELSE IF ~proc THEN is_ip
    ELSE IF byte_ptr = 13 /\ ~rx_last /\ rx_data # 0 /\ rx_data # 6 THEN FALSE
    ELSE IF byte_ptr = 12 /\ rx_data = 8 /\ ~rx_last THEN TRUE
    ELSE IF rx_last THEN FALSE
    ELSE is_ip

is_ip_next ==
    IF rst_lock THEN FALSE
    ELSE IF ~proc THEN is_ip
    ELSE IF byte_ptr = 13 /\ ~rx_last /\ rx_data # 0 THEN FALSE
    ELSE IF byte_ptr = 12 /\ rx_data = 8 /\ ~rx_last THEN TRUE
    ELSE IF rx_last THEN FALSE
    ELSE is_ip

is_arp_next ==
    IF rst_lock THEN FALSE
    ELSE IF ~proc THEN is_arp
    ELSE IF byte_ptr = 13 /\ ~rx_last /\ is_ip /\ rx_data = 6 THEN TRUE
    ELSE IF rx_last THEN FALSE
    ELSE is_arp

ip_len_next ==
    LET base == IF rx_last THEN 0 ELSE ip_len
    IN  IF ~proc THEN ip_len
        ELSE IF is_ip /\ byte_ptr = 16 THEN SetByte(base, 1, rx_data)
        ELSE IF is_ip /\ byte_ptr = 17 THEN SetByte(base, 0, rx_data)
        ELSE base

ip_hdr_len_next ==
    IF ~proc THEN ip_hdr_len
    ELSE IF is_ip /\ byte_ptr = 14 THEN BitAnd(rx_data, 15)
    ELSE IF ~flush_state /\ rx_last THEN 5
    ELSE ip_hdr_len

ttl_next == IF proc /\ is_ip /\ byte_ptr = 22 THEN rx_data ELSE ttl

ip_proto_next ==
    IF ~proc THEN ip_proto
    ELSE IF is_ip /\ byte_ptr = 23 THEN rx_data
    ELSE IF rx_last THEN 0
    ELSE ip_proto

src_ip_next ==
    IF proc /\ is_ip /\ byte_ptr \in 26..29
    THEN SetByte(src_ip, 29 - byte_ptr, rx_data)
    ELSE src_ip

dst_ip_next ==
    IF proc /\ is_ip /\ byte_ptr \in 30..33
    THEN SetByte(dst_ip, 33 - byte_ptr, rx_data)
    ELSE dst_ip

udp_len_reg_next ==
    IF proc /\ is_ip /\ ip_proto = 17 /\ byte_ptr = 38
    THEN SetByte(udp_len_reg, 1, rx_data)
    ELSE udp_len_reg

\* mutant: the NS bit of byte 46 is never captured
tcp_flags_high_bit_next_never == tcp_flags_high_bit

tcp_flags_high_bit_next ==
    IF proc /\ is_ip /\ ip_proto = 6 /\ byte_ptr = 46
    THEN rx_data % 2 = 1
    ELSE tcp_flags_high_bit

arp_opcode_high_next ==
    IF proc /\ is_arp /\ byte_ptr = 20 THEN rx_data ELSE arp_opcode_high

\* mutant: a non-printable byte clears the count instead of lowering it
plaintext_cnt_next_reset_on_break ==
    IF rst_lock THEN 0
    ELSE IF ~proc THEN plaintext_cnt
    ELSE IF is_ip /\ byte_ptr > 14 + ip_hdr_len * 4 - 1 /\ is_printable
    THEN (IF plaintext_cnt < 255 THEN plaintext_cnt + 1
          ELSE IF rx_last THEN 0 ELSE plaintext_cnt)
    ELSE IF is_ip /\ byte_ptr > 14 + ip_hdr_len * 4 - 1 THEN 0
    ELSE IF rx_last THEN 0
    ELSE plaintext_cnt

plaintext_cnt_next ==
    LET base == IF rx_last THEN 0 ELSE plaintext_cnt
    IN  IF rst_lock THEN 0
        ELSE IF ~proc THEN plaintext_cnt
        ELSE IF is_ip /\ byte_ptr > 14 + ip_hdr_len * 4 - 1
        THEN IF is_printable
             THEN (IF plaintext_cnt < 255 THEN plaintext_cnt + 1 ELSE base)
             ELSE (IF plaintext_cnt > 0 THEN plaintext_cnt - 1 ELSE base)
        ELSE base

\* mutant: the bucket takes one token per ARP frame, at its last byte
arp_bucket_next_per_frame ==
    IF rst_lock THEN 0
    ELSE IF arp_leak_timer >= ARP_LEAK_INTERVAL /\ arp_bucket > 0
    THEN arp_bucket - 1
    ELSE IF proc /\ is_arp /\ rx_last /\ arp_bucket < ARP_BUCKET_MAX
    THEN arp_bucket + 1
    ELSE arp_bucket

arp_bucket_next ==
    IF rst_lock THEN 0
    ELSE IF arp_leak_timer >= ARP_LEAK_INTERVAL /\ arp_bucket > 0
    THEN arp_bucket - 1
    ELSE IF proc /\ is_arp /\ arp_bucket < ARP_BUCKET_MAX THEN arp_bucket + 1
    ELSE arp_bucket

arp_leak_timer_next ==
    IF arp_leak_timer >= ARP_LEAK_INTERVAL THEN 0
    ELSE (arp_leak_timer + 1) % ARP_LEAK_TIMER_MOD

heartbeat_toggled == heartbeat_in # last_heartbeat

\* mutant: a heartbeat toggle does not reload the timer
watchdog_timer_next_no_reload ==
    IF rst_lock THEN HEARTBEAT_TIMEOUT
    ELSE IF ~heartbeat_toggled /\ watchdog_timer > 0 THEN watchdog_timer - 1
    ELSE watchdog_timer

watchdog_timer_next ==
    IF rst_lock THEN HEARTBEAT_TIMEOUT
    ELSE IF heartbeat_toggled THEN HEARTBEAT_TIMEOUT
    ELSE IF watchdog_timer > 0 THEN watchdog_timer - 1
    ELSE watchdog_timer

\* mutant: the watchdog fires one cycle early
violation_heartbeat_next_early ==
    IF rst_lock THEN FALSE
    ELSE IF ~heartbeat_toggled /\ ~(watchdog_timer > 1) THEN TRUE
    ELSE violation_heartbeat

violation_heartbeat_next ==
    IF rst_lock THEN FALSE
    ELSE IF ~heartbeat_toggled /\ ~(watchdog_timer > 0) THEN TRUE
    ELSE violation_heartbeat

\* mutant: a volume violation on the reset cycle survives the reset
violation_volume_next_rule_first ==
    IF proc /\ check_volume /\ ~allow_volume /\ ~rx_last THEN TRUE
    ELSE IF rst_lock THEN FALSE
    ELSE violation_volume

\* mutant: the volume latch is cleared at the end of a frame like the others
violation_volume_next_frame_scoped ==
    IF rst_lock THEN FALSE
    ELSE IF proc /\ check_volume /\ ~allow_volume /\ ~rx_last THEN TRUE
    ELSE IF proc /\ rx_last THEN FALSE
    ELSE violation_volume

violation_volume_next ==
    IF rst_lock THEN FALSE
    ELSE IF proc /\ check_volume /\ ~allow_volume /\ ~rx_last THEN TRUE
    ELSE violation_volume

\* mutant: the rule writes its latch on the last byte of a frame as well,
\* after the end-of-frame bookkeeping has cleared it
FrameLatch_on_last_byte(cur, rule) ==
    IF rst_lock THEN FALSE
    ELSE IF ~proc THEN cur
    ELSE IF rule THEN TRUE
    ELSE IF rx_last THEN FALSE
    ELSE cur

\* a per-frame latch: set by its rule on a byte that is not the last,
\* cleared by the end-of-frame bookkeeping and by the manual reset
FrameLatch(cur, rule) ==
    IF rst_lock THEN FALSE
    ELSE IF ~proc THEN cur
    ELSE IF rule /\ ~rx_last THEN TRUE
    ELSE IF rx_last THEN FALSE
    ELSE cur

\* mutant: the runt / truncation latch is also written in the flush branch
violation_wg_size_next_in_flush ==
    IF rst_lock THEN FALSE
    ELSE IF ~proc THEN violation_wg_size
    ELSE IF is_ip /\ ~rx_last
              /\ ( \/ (byte_ptr = 14 /\ check_min_size /\ ~allow_min_size)
                   \/ (check_min_size /\ ~allow_min_size)
                   \/ (check_trailing /\ ~allow_trailing) )
    THEN TRUE
    ELSE IF rx_last THEN runt_or_truncated
    ELSE violation_wg_size

violation_wg_size_next ==
    IF rst_lock THEN FALSE
    ELSE IF ~proc THEN violation_wg_size
    ELSE IF is_ip /\ ~rx_last
              /\ ( \/ (byte_ptr = 14 /\ check_min_size /\ ~allow_min_size)
                   \/ (check_min_size /\ ~allow_min_size)
                   \/ (check_trailing /\ ~allow_trailing) )
    THEN TRUE
    ELSE IF rx_last THEN ~flush_state /\ runt_or_truncated
    ELSE violation_wg_size

violation_ethertype_next ==
    FrameLatch(violation_ethertype,
        \/ (byte_ptr = 13 /\ check_ethertype /\ ~allow_ethertype)
        \/ (is_ip /\ byte_ptr = 14 /\ rx_data \div 16 # 4))

violation_ttl_next ==
    FrameLatch(violation_ttl, is_ip /\ byte_ptr = 22 /\ check_ttl /\ ~allow_ttl)

violation_plaintext_next ==
    FrameLatch(violation_plaintext,
        is_ip /\ byte_ptr > 14 + ip_hdr_len * 4 - 1
              /\ check_plaintext /\ ~allow_plaintext)

violation_arp_rate_next ==
    FrameLatch(violation_arp_rate, is_arp /\ check_arp_rate /\ ~allow_arp_rate)

violation_arp_opcode_next ==
    FrameLatch(violation_arp_opcode,
        is_arp /\ check_arp_opcode /\ ~allow_arp_opcode)

violation_arp_size_next ==
    FrameLatch(violation_arp_size, check_arp_size /\ ~allow_arp_size)

violation_ip_proto_next ==
    FrameLatch(violation_ip_proto, is_ip /\ check_protocol /\ ~allow_protocol)

violation_ip_options_next ==
    FrameLatch(violation_ip_options,
        is_ip /\ byte_ptr = 14 /\ check_ip_options /\ ~allow_ip_options)

violation_frag_next ==
    FrameLatch(violation_frag,
        is_ip /\ ( \/ (check_frag_flags /\ ~allow_frag_flags)
                   \/ (check_frag_offset /\ ~allow_frag_offset) ))

violation_land_next ==
    FrameLatch(violation_land, is_ip /\ check_land /\ ~allow_land)

violation_loopback_next ==
    FrameLatch(violation_loopback, is_ip /\ check_loopback /\ ~allow_loopback)

violation_tcp_flags_next ==
    FrameLatch(violation_tcp_flags,
        is_ip /\ check_tcp_flags /\ ~allow_tcp_flags)

violation_tcp_options_next ==
    FrameLatch(violation_tcp_options,
        is_ip /\ check_tcp_options /\ ~allow_tcp_options)

violation_udp_len_next ==
    FrameLatch(violation_udp_len, is_ip /\ check_udp_len /\ ~allow_udp_len)

----------------------------------------------------------------------------
(* Observers: bookkeeping about the run that the properties refer to.      *)

\* the byte on the wire is consumed and ends its frame
frame_end == rx_fire /\ rx_last

\* a rule fires on the byte being consumed
hit_now == rx_fire /\ violation_now

\* the byte on the wire is accepted downstream carrying its ingress data
forwarded_now == rx_valid /\ ~gate_tx /\ tx_ready

Min(a, b) == IF a < b THEN a ELSE b

TickObservers ==
    /\ quiet' = IF rst_lock \/ heartbeat_toggled THEN 0
                ELSE Min(quiet + 1, HEARTBEAT_TIMEOUT + 2)
    /\ frame_fwd' = IF frame_end THEN FALSE ELSE frame_fwd \/ forwarded_now
    /\ frame_hit' = IF frame_end THEN FALSE ELSE frame_hit \/ hit_now
    /\ frame_rst' = IF frame_end THEN FALSE
                    ELSE (frame_hit \/ hit_now) /\ (frame_rst \/ rst_lock)

TickTallies ==
    IF rst_lock
    THEN n_rx_last' = 0 /\ n_tx_last' = 0 /\ n_flush_last' = 0
    ELSE /\ n_rx_last' = n_rx_last + (IF rx_valid /\ rx_last THEN 1 ELSE 0)
         /\ n_tx_last' = n_tx_last + (IF tx_valid /\ tx_last THEN 1 ELSE 0)
         /\ n_flush_last' =
                n_flush_last
                    + (IF rx_valid /\ rx_last /\ flush_state THEN 1 ELSE 0)

----------------------------------------------------------------------------
(* The state machine.                                                      *)

\* SecurityAirlock(heartbeat_timeout, volume_limit) right after construction
Construct(heartbeat_timeout, volume_limit) ==
    /\ HEARTBEAT_TIMEOUT = heartbeat_timeout
    /\ VOLUME_LIMIT = volume_limit
    /\ rx_data = 0 /\ rx_valid = FALSE /\ rx_last = FALSE
    /\ tx_ready = FALSE /\ heartbeat_in = FALSE /\ rst_lock = FALSE
    /\ egress_mode = FALSE
    /\ locked = FALSE /\ drop_current = FALSE /\ flush_state = TRUE
    /\ violation_volume = FALSE /\ violation_ttl = FALSE
    /\ violation_wg_size = FALSE /\ violation_plaintext = FALSE
    /\ violation_heartbeat = FALSE /\ violation_ethertype = FALSE
    /\ violation_arp_rate = FALSE /\ violation_ip_proto = FALSE
    /\ violation_arp_size = FALSE /\ violation_frag = FALSE
    /\ violation_ip_options = FALSE /\ violation_arp_opcode = FALSE
    /\ violation_land = FALSE /\ violation_loopback = FALSE
    /\ violation_tcp_flags = FALSE /\ violation_tcp_options = FALSE
    /\ violation_udp_len = FALSE
    /\ tcp_flags_high_bit = FALSE
    /\ watchdog_timer = heartbeat_timeout
    /\ last_heartbeat = FALSE
    /\ volume_cnt = 0 /\ byte_ptr = 0 /\ is_ip = FALSE /\ ip_len = 0
    /\ ip_hdr_len = 5 /\ ttl = 0 /\ src_ip = 0 /\ dst_ip = 0 /\ ip_proto = 0
    /\ udp_len_reg = 0 /\ is_arp = FALSE /\ arp_bucket = 0
    /\ arp_leak_timer = 0 /\ arp_opcode_high = 0 /\ plaintext_cnt = 0
    /\ phase = "drive"
    /\ quiet = 0 /\ frame_fwd = FALSE /\ frame_hit = FALSE /\ frame_rst = FALSE
    /\ n_rx_last = 0 /\ n_tx_last = 0 /\ n_flush_last = 0
    /\ syn_sent = 0
    /\ frame_seen = <<>>
    /\ watchdog_timer_d = heartbeat_timeout
    /\ volume_spent = FALSE

\* the two ARP rate constants that elaborate() fixes before building the
\* logic, and the widths it gives volume_cnt and byte_ptr
Elaborate(arp_leak_interval, arp_burst_limit, volume_cnt_mod, byte_ptr_max) ==
    /\ ARP_LEAK_INTERVAL = arp_leak_interval
    /\ ARP_BURST_LIMIT = arp_burst_limit
    /\ VOLUME_CNT_MOD = volume_cnt_mod
    /\ BYTE_PTR_MAX = byte_ptr_max

Init ==
    /\ Construct(HeartbeatTimeout, VolumeLimit)
    /\ Elaborate(ArpLeakInterval, ArpBurstLimit, VolumeCntModSource,
                 BytePtrMaxSource)

\* The testbench sets the pins for the coming cycle.  rx_last is only raised
\* together with rx_valid (the stream contract); an idle rx_data reads 0.
DrivePins(more_traffic) ==
    /\ phase = "drive"
    /\ phase' = "tick"
    /\ rx_valid' \in (IF more_traffic THEN BOOLEAN ELSE {FALSE})
    /\ rx_last' \in (IF rx_valid'
                     THEN (IF byte_ptr >= MaxFrame - 1 THEN {TRUE} ELSE BOOLEAN)
                     ELSE {FALSE})
    /\ rx_data' \in (IF rx_valid' THEN Data ELSE {0})
    /\ tx_ready' \in BOOLEAN
    /\ heartbeat_in' \in BOOLEAN
    /\ rst_lock' \in BOOLEAN
    /\ egress_mode' \in BOOLEAN
    /\ UNCHANGED <<params, regs, observers, tallies, tracking, history,
                   past>>

\* The clock edge: every register takes its next value.
ClockEdge ==
    /\ phase = "tick"
    /\ phase' = "drive"
    /\ locked' = locked_next
    /\ drop_current' = drop_current_next
    /\ flush_state' = flush_state_next
    /\ violation_volume' = violation_volume_next
    /\ violation_ttl' = violation_ttl_next
    /\ violation_wg_size' = violation_wg_size_next
    /\ violation_plaintext' = violation_plaintext_next
    /\ violation_heartbeat' = violation_heartbeat_next
    /\ violation_ethertype' = violation_ethertype_next
    /\ violation_arp_rate' = violation_arp_rate_next
    /\ violation_ip_proto' = violation_ip_proto_next
    /\ violation_arp_size' = violation_arp_size_next
    /\ violation_frag' = violation_frag_next
    /\ violation_ip_options' = violation_ip_options_next
    /\ violation_arp_opcode' = violation_arp_opcode_next
    /\ violation_land' = violation_land_next
    /\ violation_loopback' = violation_loopback_next
    /\ violation_tcp_flags' = violation_tcp_flags_next
    /\ violation_tcp_options' = violation_tcp_options_next
    /\ violation_udp_len' = violation_udp_len_next
    /\ tcp_flags_high_bit' = tcp_flags_high_bit_next
    /\ watchdog_timer' = watchdog_timer_next
    /\ last_heartbeat' = heartbeat_in
    /\ volume_cnt' = volume_cnt_next
    /\ byte_ptr' = byte_ptr_next
    /\ is_ip' = is_ip_next
    /\ ip_len' = ip_len_next
    /\ ip_hdr_len' = ip_hdr_len_next
    /\ ttl' = ttl_next
    /\ src_ip' = src_ip_next
    /\ dst_ip' = dst_ip_next
    /\ ip_proto' = ip_proto_next
    /\ udp_len_reg' = udp_len_reg_next
    /\ is_arp' = is_arp_next
    /\ arp_bucket' = arp_bucket_next
    /\ arp_leak_timer' = arp_leak_timer_next
    /\ arp_opcode_high' = arp_opcode_high_next
    /\ plaintext_cnt' = plaintext_cnt_next
    /\ rx_data' = 0 /\ rx_valid' = FALSE /\ rx_last' = FALSE
    /\ tx_ready' = FALSE /\ heartbeat_in' = FALSE /\ rst_lock' = FALSE
    /\ egress_mode' = FALSE
    /\ TickObservers
    /\ UNCHANGED params

Drive == DrivePins(locked \/ volume_cnt < MaxVolume)

Tick == ClockEdge /\ UNCHANGED <<tallies, tracking, history, past>>

Next == Drive \/ Tick

Spec == Init /\ [][Next]_vars

\* the same machine with the frame-end tallies kept
DriveTally ==
    DrivePins((locked \/ volume_cnt < MaxVolume) /\ n_rx_last < MaxTally)

TickTally ==
    ClockEdge /\ TickTallies /\ UNCHANGED <<tracking, history, past>>

NextTally == DriveTally \/ TickTally

SpecTally == Init /\ [][NextTally]_vars

\* the same machine with the past register of the proof harness kept:
\* m.d.sync += watchdog_timer_d.eq(dut.watchdog_timer)
TickPast ==
    /\ ClockEdge
    /\ watchdog_timer_d' = watchdog_timer
    /\ UNCHANGED <<tallies, tracking, history, volume_spent>>

SpecPast == Init /\ [][Drive \/ TickPast]_vars

\* the same machine with a live heartbeat: heartbeat_in changes at least
\* once in every window of HEARTBEAT_TIMEOUT cycles, so when the
\* HEARTBEAT_TIMEOUT - 1 cycles before were quiet this cycle brings the toggle
DriveAlive ==
    /\ Drive
    /\ (quiet >= HEARTBEAT_TIMEOUT - 1 => heartbeat_in' # last_heartbeat)

SpecAlive == Init /\ [][DriveAlive \/ Tick]_vars

----------------------------------------------------------------------------
(* Whole frames: the environment of the attack testbenches, which present  *)
(* frames built by build_tcp_packet and the ARP tests byte by byte with    *)
(* tx_ready held high, here with a heartbeat that toggles every cycle.     *)

\* volume_limit of the frame specification: one whole frame fits
FramesVolumeLimit == 60
\* the environment of the frame specification stops sending at this count
FramesMaxVolume == 62
\* ARP_LEAK_INTERVAL of the frame specification: the bucket leaks as fast
\* as whole ARP frames fill it
FramesArpLeakInterval == 0

\* build_tcp_packet(): 14-byte Ethernet header with EtherType 0x0800, the
\* IPv4 header 45 00 00 28 .. 40 06 .. 01 02 03 04 05 06 07 08, and a TCP
\* header with source port 1234, destination port 80, data offset 5, SYN
TcpSyn ==
    <<0, 0, 0, 0, 0, 0, 0, 0, 0, 0, 0, 0, 8, 0,
      69, 0, 0, 40, 0, 0, 0, 0, 64, 6, 0, 0, 1, 2, 3, 4, 5, 6, 7, 8,
      4, 210, 0, 80, 0, 0, 0, 0, 0, 0, 0, 0, 80, 2, 32, 0, 0, 0, 0, 0>>

\* a minimal ARP request: EtherType 0x0806, 28 bytes of ARP, opcode 00 01
ArpRequest ==
    <<0, 0, 0, 0, 0, 0, 0, 0, 0, 0, 0, 0, 8, 6,
      0, 0, 0, 0, 0, 0, 0, 1,
      0, 0, 0, 0, 0, 0, 0, 0, 0, 0, 0, 0, 0, 0, 0, 0, 0, 0, 0, 0>>

\* the frame the testbench is in the middle of, as the parser classified it
frame_on_wire == IF is_arp THEN ArpRequest ELSE TcpSyn

\* bytes the testbench may present next: the frame's byte at this position,
\* either EtherType at byte 13, and a TTL of 0 instead of 64 at byte 22
FrameData ==
    IF flush_state \/ locked THEN {0}
    ELSE IF byte_ptr = 13 THEN {TcpSyn[14], ArpRequest[14]}
    ELSE IF ~is_arp /\ byte_ptr = 22 THEN {TcpSyn[23], 0}
    ELSE {frame_on_wire[byte_ptr + 1]}

\* byte positions at which the testbench may cut a frame short: inside the
\* Ethernet header (a runt), inside the IPv4 header, inside the TCP header
CutPoints == {13, 20, 40}

\* The testbench sets the pins for a cycle of a frame.  A frame starts after
\* an idle line or directly after its predecessor, is presented without
\* bubbles, and ends at its full length or at a cut point; what is left of a
\* frame when a reset arrives is a single tail byte.  The reset button is
\* pressed between frames or while locked.
DriveFrame ==
    /\ phase = "drive"
    /\ phase' = "tick"
    /\ rx_valid' \in (IF ~locked /\ volume_cnt >= FramesMaxVolume THEN {FALSE}
                      ELSE IF locked \/ flush_state \/ byte_ptr = 0
                      THEN BOOLEAN ELSE {TRUE})
    /\ rx_last' \in (IF ~rx_valid' THEN {FALSE}
                     ELSE IF flush_state
                             \/ byte_ptr >= Len(frame_on_wire) - 1 THEN {TRUE}
                     ELSE IF locked \/ byte_ptr \in CutPoints THEN BOOLEAN
                     ELSE {FALSE})
    /\ rx_data' \in (IF rx_valid' THEN FrameData ELSE {0})
    /\ tx_ready' = TRUE
    /\ heartbeat_in' = ~last_heartbeat
    /\ rst_lock' \in (IF locked \/ byte_ptr = 0 THEN BOOLEAN ELSE {FALSE})
    /\ egress_mode' \in BOOLEAN
    /\ UNCHANGED <<params, regs, observers, tallies, tracking, history,
                   past>>

InitFrames ==
    /\ Construct(HeartbeatTimeout, FramesVolumeLimit)
    /\ Elaborate(FramesArpLeakInterval, ArpBurstLimit, VolumeCntModSource,
                 BytePtrMaxSource)

\* the airlock is open and nothing is held against the next frame
clean == ~flush_state /\ ~locked /\ ~drop_current /\ ~traffic_violation

\* the byte on the wire starts or continues the valid TCP frame, presented
\* in ingress mode without a reset
syn_byte_now ==
    /\ rx_valid /\ ~rst_lock /\ ~egress_mode
    /\ syn_sent >= 0
    /\ (syn_sent = 0 => clean)
    /\ rx_data = TcpSyn[syn_sent + 1]
    /\ rx_last = (syn_sent + 1 = Len(TcpSyn))

TrackFrame ==
    syn_sent' = IF ~rx_fire THEN (IF rst_lock /\ syn_sent > 0 THEN -1
                                  ELSE syn_sent)
                ELSE IF rx_last THEN 0
                ELSE IF syn_byte_now THEN syn_sent + 1
                ELSE -1

TickFrame ==
    ClockEdge /\ TrackFrame /\ UNCHANGED <<tallies, history, past>>

NextFrames == DriveFrame \/ TickFrame

SpecFrames == InitFrames /\ [][NextFrames]_vars

----------------------------------------------------------------------------
(* An ARP burst: after one idle cycle that ends the power-on flush, the     *)
(* testbench sends minimal ARP requests back to back, tx_ready high and the *)
(* heartbeat toggling, with the ARP rate constants of the source.  It stops *)
(* when the airlock locks or after MaxArpFrames frames.                     *)

\* number of ARP frames the burst testbench sends at most
MaxArpFrames == 145

DriveArp ==
    /\ phase = "drive"
    /\ ~locked /\ n_rx_last < MaxArpFrames
    /\ phase' = "tick"
    /\ rx_valid' = ~flush_state
    /\ rx_last' = (rx_valid' /\ byte_ptr = Len(ArpRequest) - 1)
    /\ rx_data' = IF rx_valid' THEN ArpRequest[byte_ptr + 1] ELSE 0
    /\ tx_ready' = TRUE
    /\ heartbeat_in' = ~last_heartbeat
    /\ rst_lock' = FALSE
    /\ egress_mode' \in BOOLEAN
    /\ UNCHANGED <<params, regs, observers, tallies, tracking, history,
                   past>>

InitArp ==
    /\ Construct(HeartbeatTimeout, VolumeLimitDefault)
    /\ Elaborate(ArpLeakIntervalSource, ArpBurstLimitSource,
                 VolumeCntModSource, BytePtrMaxSource)

NextArp == DriveArp \/ TickTally

SpecArp == InitArp /\ [][NextArp]_vars

----------------------------------------------------------------------------
(* One frame per run: the generated attack tests build a fresh airlock, let *)
(* one idle cycle end the power-on flush and present a single frame that    *)
(* differs from a well-formed one in one header field.                      *)

\* longest frame of the rule testbench, in bytes: a padded minimum-size
\* Ethernet frame of 64 bytes and two more
RulesMaxFrame == 66

\* build_ip_packet(proto=17) with the 8-byte UDP header 12 34 00 50 00 08
UdpDatagram ==
    <<0, 0, 0, 0, 0, 0, 0, 0, 0, 0, 0, 0, 8, 0,
      69, 0, 0, 28, 0, 0, 0, 0, 64, 17, 0, 0, 1, 2, 3, 4, 5, 6, 7, 8,
      18, 52, 0, 80, 0, 8, 0, 0>>

\* byte number i of a frame, counted from 0 as byte_ptr counts
Byte(s, i) == s[i + 1]

is_ipv4_frame(s) == Len(s) >= 14 /\ Byte(s, 12) = 8 /\ Byte(s, 13) = 0

is_arp_frame(s) == Len(s) >= 14 /\ Byte(s, 12) = 8 /\ Byte(s, 13) = 6

\* total length field of the IPv4 header of a frame, bytes 16 and 17
frame_ip_len(s) == 256 * Byte(s, 16) + Byte(s, 17)

\* the well-formed frame the testbench is building, given the bytes sent
frame_template(s) ==
    IF is_arp_frame(s) THEN ArpRequest
    ELSE IF Len(s) >= 24
    THEN (IF Byte(s, 23) = 17 THEN UdpDatagram ELSE TcpSyn)
    ELSE IF Len(s) >= 18 /\ Byte(s, 17) = 28 THEN UdpDatagram
    ELSE TcpSyn

\* bytes that continue a frame without departing from its template: either
\* EtherType, either total length, the destination address bytes that follow
\* the first one, the UDP length that matches, the template's byte, and
\* padding behind the template's end
PlainBytes(s) ==
    LET k == Len(s)
        t == frame_template(s)
    IN  IF k = 13 THEN {0, 6}
        ELSE IF k >= 14 /\ ~is_ipv4_frame(s) /\ ~is_arp_frame(s) THEN {0}
        ELSE IF k = 17 /\ is_ipv4_frame(s) THEN {40, 28}
        ELSE IF k \in {31, 32} /\ is_ipv4_frame(s)
        THEN {IF Byte(s, 30) = Byte(s, 26) THEN Byte(s, k - 4) ELSE t[k + 1]}
        ELSE IF k = 33 /\ is_ipv4_frame(s)
        THEN (IF Byte(s, 30) = Byte(s, 26) THEN {Byte(s, 29), t[k + 1]}
              ELSE {t[k + 1]})
        ELSE IF k = 39 /\ is_ipv4_frame(s) /\ Byte(s, 23) = 17
        THEN {(frame_ip_len(s) - 20) % 256}
        ELSE IF k < Len(t) THEN {t[k + 1]}
        ELSE IF k >= 64 THEN {0, 255}
        ELSE {0}

\* bytes by which a test departs from the template: the fuzzed EtherTypes,
\* IHL and version, total length, fragment bits, TTL, protocol, loopback and
\* equal addresses, ARP opcode, UDP length, TCP data offset and NS bit, and
\* every TCP flag byte but SYN
VariedBytes(s) ==
    LET k == Len(s)
    IN  IF k = 12 THEN {134}
        ELSE IF k = 13 THEN {5, 221}
        ELSE IF is_arp_frame(s)
        THEN (IF k = 20 THEN {1} ELSE IF k = 21 THEN {2, 3, 0} ELSE {})
        ELSE IF ~is_ipv4_frame(s) THEN {}
        ELSE IF k = 14 THEN {70, 85, 68}
        ELSE IF k = 16 THEN {1}
        ELSE IF k = 17 THEN {27, 39}
        ELSE IF k = 20 THEN {64, 32, 128}
        ELSE IF k = 21 THEN {1}
        ELSE IF k = 22 THEN {60, 59, 0, 255}
        ELSE IF k = 23 THEN {1, 6, 17} \ PlainBytes(s)
        ELSE IF k = 26 THEN {127}
        ELSE IF k = 30 THEN {127, Byte(s, 26)}
        ELSE IF k = 33 THEN {Byte(s, 29)}
        ELSE IF k = 38 /\ Byte(s, 23) = 17 THEN {1}
        ELSE IF k = 39 /\ Byte(s, 23) = 17
        THEN {4, (frame_ip_len(s) - 19) % 256}
        ELSE IF k = 46 /\ Byte(s, 23) = 6 THEN {81, 96}
        ELSE IF k = 47 /\ Byte(s, 23) = 6 THEN 0..255 \ PlainBytes(s)
        ELSE {}

\* no byte sent so far departs from the template
Unvaried(s) == \A i \in 1..Len(s) : s[i] \in PlainBytes(SubSeq(s, 1, i - 1))

\* bytes the testbench may present next: one departure per frame, or two
\* when they are the NS bit in byte 46 and the flags in byte 47
RulesData ==
    IF \/ Unvaried(frame_seen)
       \/ (Len(frame_seen) = 47 /\ Unvaried(SubSeq(frame_seen, 1, 46)))
    THEN PlainBytes(frame_seen) \cup VariedBytes(frame_seen)
    ELSE PlainBytes(frame_seen)

\* lengths at which the testbench ends a frame: runts of 1, 6, 13 and 14
\* bytes, cuts inside the IPv4 header and one byte short of an IPv4 payload,
\* the full 42 and 54 bytes, and the padded 64 and 65 bytes
RulesCutPoints == {0, 5, 12, 13, 20, 40, 41, 52, 53, 63, 64}

\* The testbench sets the pins: an idle first cycle, then the frame without
\* bubbles, tx_ready high, the heartbeat toggling and either mode.  The
\* reset button may be pressed on any cycle; the run ends with the frame,
\* with the lock or with the reset.
DriveRules ==
    /\ phase = "drive"
    /\ ~locked
    /\ (arp_leak_timer <= 1 \/ frame_seen # <<>>)
    /\ phase' = "tick"
    /\ rx_valid' = ~flush_state
    /\ rx_last' \in (IF ~rx_valid' THEN {FALSE}
                     ELSE IF Len(frame_seen) >= RulesMaxFrame - 1 THEN {TRUE}
                     ELSE IF Len(frame_seen) \in RulesCutPoints THEN BOOLEAN
                     ELSE {FALSE})
    /\ rx_data' \in (IF rx_valid' THEN RulesData ELSE {0})
    /\ tx_ready' = TRUE
    /\ heartbeat_in' = ~last_heartbeat
    /\ rst_lock' \in BOOLEAN
    /\ egress_mode' \in BOOLEAN
    /\ UNCHANGED <<params, regs, observers, tallies, tracking, history,
                   past>>

TrackRules ==
    frame_seen' = IF rst_lock THEN <<>>
                  ELSE IF ~(proc /\ ~flush_state) THEN frame_seen
                  ELSE IF rx_last THEN <<>>
                  ELSE Append(frame_seen, rx_data)

TickRules ==
    ClockEdge /\ TrackRules /\ UNCHANGED <<tallies, tracking, past>>

InitRules ==
    /\ Construct(HeartbeatTimeout, VolumeLimitDefault)
    /\ Elaborate(ArpLeakIntervalSource, ArpBurstLimitSource,
                 VolumeCntModSource, BytePtrMaxSource)

NextRules == DriveRules \/ TickRules

SpecRules == InitRules /\ [][NextRules]_vars

----------------------------------------------------------------------------
(* A long run in egress mode: whole TCP frames and single-byte frames, sent *)
(* back to back until the volume counter has gone round, with a volume      *)
(* limit and a counter width scaled down together (limit below 2 ^ width,   *)
(* as 99,614,720 is below 2 ^ 27).                                          *)

\* volume_limit of the long-run specification: one whole TCP frame fits
WrapVolumeLimit == 58
\* number of values of volume_cnt in the long-run specification
WrapVolumeMod == 60

\* the volume limit is reached on this cycle or was reached since rst_lock
spent_now == volume_spent \/ volume_cnt >= VOLUME_LIMIT

\* The testbench sets the pins: an idle cycle while flush_state is set, else
\* the next byte of a frame.  A frame is a single byte or the whole TCP frame;
\* the reset button is pressed between frames only.
DriveWrap ==
    /\ phase = "drive"
    /\ ~locked
    /\ phase' = "tick"
    /\ rx_valid' = ~flush_state
    /\ rx_last' \in (IF ~rx_valid' THEN {FALSE}
                     ELSE IF byte_ptr = 0 THEN BOOLEAN
                     ELSE {byte_ptr = Len(TcpSyn) - 1})
    /\ rx_data' = IF rx_valid' THEN TcpSyn[byte_ptr + 1] ELSE 0
    /\ tx_ready' = TRUE
    /\ heartbeat_in' = ~last_heartbeat
    /\ rst_lock' \in (IF byte_ptr = 0 THEN BOOLEAN ELSE {FALSE})
    /\ egress_mode' \in BOOLEAN
    /\ UNCHANGED <<params, regs, observers, tallies, tracking, history,
                   past>>

TickWrap ==
    /\ ClockEdge
    /\ volume_spent' = (~rst_lock /\ spent_now)
    /\ UNCHANGED <<tallies, tracking, history, watchdog_timer_d>>

InitWrap ==
    /\ Construct(HeartbeatTimeout, WrapVolumeLimit)
    /\ Elaborate(FramesArpLeakInterval, ArpBurstLimit, WrapVolumeMod,
                 BytePtrMaxSource)

SpecWrap == InitWrap /\ [][DriveWrap \/ TickWrap]_vars

----------------------------------------------------------------------------
(* An oversized frame: one frame per run, the TCP frame followed by text,   *)
(* longer than byte_ptr can count, with the width of byte_ptr scaled down.  *)
(* Only egress mode lets the parser run on to the end of such a frame.      *)

\* largest value of byte_ptr in the oversized-frame specification: above
\* every offset a rule looks at and above 54 + 255, so that plaintext_cnt
\* is full before byte_ptr is
GiantBytePtrMax == 511

\* bytes the oversized frame goes on after byte_ptr has reached its maximum
GiantTail == 2

giant_frame_len == GiantBytePtrMax + 1 + GiantTail

\* byte k of the oversized frame: the TCP frame, then the letter A
GiantFrameByte(k) == IF k < Len(TcpSyn) THEN TcpSyn[k + 1] ELSE 65

\* The testbench sets the pins: an idle first cycle, then the frame without
\* bubbles; volume_cnt is the number of its bytes consumed so far.
DriveGiant ==
    /\ phase = "drive"
    /\ ~locked /\ volume_cnt < giant_frame_len
    /\ phase' = "tick"
    /\ rx_valid' = ~flush_state
    /\ rx_last' = (rx_valid' /\ volume_cnt = giant_frame_len - 1)
    /\ rx_data' = IF rx_valid' THEN GiantFrameByte(volume_cnt) ELSE 0
    /\ tx_ready' = TRUE
    /\ heartbeat_in' = ~last_heartbeat
    /\ rst_lock' = FALSE
    /\ egress_mode' \in BOOLEAN
    /\ UNCHANGED <<params, regs, observers, tallies, tracking, history,
                   past>>

InitGiant ==
    /\ Construct(HeartbeatTimeout, VolumeLimitDefault)
    /\ Elaborate(FramesArpLeakInterval, ArpBurstLimit, VolumeCntModSource,
                 GiantBytePtrMax)

SpecGiant == InitGiant /\ [][DriveGiant \/ Tick]_vars

----------------------------------------------------------------------------
(* A stalling downstream: one TCP frame per run, presented with bubbles     *)
(* while tx_ready comes and goes; a byte that is not accepted is held.      *)

\* bytes the testbench may present at the parser's position: the frame's
\* byte, and a TTL of 0 instead of 64
StallData ==
    IF byte_ptr = 22 THEN {TcpSyn[23], 0} ELSE {TcpSyn[byte_ptr + 1]}

\* The testbench sets the pins: idle while flush_state is set, else idle or
\* the byte of the frame at the parser's position, the last byte with
\* rx_last.  The run ends with the frame; volume_cnt = 0 says that it has
\* not begun.
DriveStall ==
    /\ phase = "drive"
    /\ (byte_ptr > 0 \/ volume_cnt = 0)
    /\ phase' = "tick"
    /\ rx_valid' \in (IF flush_state THEN {FALSE} ELSE BOOLEAN)
    /\ rx_last' = (rx_valid' /\ byte_ptr = Len(TcpSyn) - 1)
    /\ rx_data' \in (IF rx_valid' THEN StallData ELSE {0})
    /\ tx_ready' \in BOOLEAN
    /\ heartbeat_in' = ~last_heartbeat
    /\ rst_lock' = FALSE
    /\ egress_mode' \in BOOLEAN
    /\ UNCHANGED <<params, regs, observers, tallies, tracking, history,
                   past>>

\* the leak interval of InitFrames keeps the states of the idle cycles few
SpecStall == InitFrames /\ [][DriveStall \/ Tick]_vars

----------------------------------------------------------------------------
(* A plaintext payload: one UDP frame per run whose payload is printable    *)
(* text, as the generated payload tests and the plaintext scenario send it. *)

\* bytes of payload of the plaintext frame: enough to fill plaintext_cnt
PlainPayload == 260

\* payload offsets at which the testbench may send a zero byte instead
PlainBreaks == {0, 1, 100, 127}

\* length of the plaintext frame: Ethernet, IPv4 and UDP headers and payload
plain_frame_len == Len(UdpDatagram) + PlainPayload

\* byte k of the plaintext frame: the UDP template with the total length
\* 28 + PlainPayload and the UDP length 8 + PlainPayload, then the letter A
PlainFrameByte(k) ==
    IF k = 16 THEN (28 + PlainPayload) \div 256
    ELSE IF k = 17 THEN (28 + PlainPayload) % 256
    ELSE IF k = 38 THEN (8 + PlainPayload) \div 256
    ELSE IF k = 39 THEN (8 + PlainPayload) % 256
    ELSE IF k < Len(UdpDatagram) THEN UdpDatagram[k + 1]
    ELSE 65

DrivePlain ==
    /\ phase = "drive"
    /\ ~locked
    /\ (arp_leak_timer <= 1 \/ frame_seen # <<>>)
    /\ phase' = "tick"
    /\ rx_valid' = ~flush_state
    /\ rx_last' = (rx_valid' /\ Len(frame_seen) = plain_frame_len - 1)
    /\ rx_data' \in (IF ~rx_valid' THEN {0}
                     ELSE IF Len(frame_seen) - Len(UdpDatagram) \in PlainBreaks
                     THEN {PlainFrameByte(Len(frame_seen)), 0}
                     ELSE {PlainFrameByte(Len(frame_seen))})
    /\ tx_ready' = TRUE
    /\ heartbeat_in' = ~last_heartbeat
    /\ rst_lock' \in BOOLEAN
    /\ egress_mode' \in BOOLEAN
    /\ UNCHANGED <<params, regs, observers, tallies, tracking, history,
                   past>>

NextPlain == DrivePlain \/ TickRules

SpecPlain == InitRules /\ [][NextPlain]_vars

----------------------------------------------------------------------------
(* Properties.                                                             *)

\* a clock cycle is in progress: the pins are driven, the edge is to come
InCycle == phase = "tick"

terminator_out == tx_valid /\ tx_last /\ tx_data = 0

\* C1: No leakage when locked.  On every cycle with locked = 1 either
\* tx_valid = 0, or the egress shows the zero terminator (tx_valid = 1,
\* tx_last = 1, tx_data = 0x00), whatever the inputs are.
NoLeakWhenLocked ==
    (InCycle /\ locked) => (~tx_valid \/ (tx_valid /\ tx_last /\ tx_data = 0))

\* an ingress data byte is offered, downstream ready, while locked
NoLeakWhenLockedWitness ==
    InCycle /\ locked /\ rx_valid /\ rx_data # 0 /\ ~rx_last /\ tx_ready
        /\ ~tx_valid

ModeDiscipline ==
    [][(InCycle /\ ~rst_lock /\ ~egress_mode /\ ~locked
            /\ (traffic_violation \/ violation_now)) => locked']_vars

\* unlocked in ingress mode, a rule fails on a byte in the middle of a frame
ModeDisciplineWitness ==
    InCycle /\ ~rst_lock /\ ~egress_mode /\ ~locked /\ ~flush_state
        /\ ~violation_heartbeat /\ ~traffic_violation /\ violation_now
        /\ ~rx_last

\* C4: Fail-closed forwarding.  Once a rule has fired on a byte of a frame,
\* that byte and every later byte of the frame reach the egress, if at all,
\* only as the zero terminator (tx_data = 0x00 with tx_last = 1).
FailClosedForwarding ==
    (InCycle /\ (frame_hit \/ violation_now) /\ tx_valid)
        => (tx_data = 0 /\ tx_last)

\* C5: Manual reset has highest priority.  After any cycle with rst_lock = 1
\* both locked and drop_current are 0, whatever else happens on that cycle.
ResetHasPriority ==
    [][(InCycle /\ rst_lock) => (~locked' /\ ~drop_current')]_vars

\* C6: Heartbeat lock is mode-independent.  A cycle with
\* violation_heartbeat = 1 and rst_lock = 0 is followed by locked = 1 in
\* either mode, with or without traffic; so a heartbeat that has been held
\* constant for HEARTBEAT_TIMEOUT + 2 cycles has locked the airlock.
HeartbeatLocks ==
    /\ [][(InCycle /\ violation_heartbeat /\ ~rst_lock) => locked']_vars
    /\ [](quiet >= HEARTBEAT_TIMEOUT + 2 => (locked /\ ~status_led))

\* heartbeat violation pending in egress mode on an idle line, not yet locked
HeartbeatLocksWitness ==
    InCycle /\ violation_heartbeat /\ ~rst_lock /\ egress_mode /\ ~rx_valid
        /\ ~locked /\ ~traffic_violation

EgressFrameClosed ==
    (InCycle /\ egress_mode /\ ~locked /\ frame_fwd /\ drop_current
            /\ rx_valid /\ rx_last)
        => (terminator_out /\ tx_ready)

\* C9: Terminator after an ingress-mode lock.  When a rule fired in the
\* middle of a frame in ingress mode, so that the airlock is locked, the
\* egress still shows the zero terminator on the cycle of the frame's rx_last.
TerminatorAfterLock ==
    (InCycle /\ ~egress_mode /\ locked /\ ~violation_heartbeat /\ frame_hit
            /\ ~frame_rst /\ ~flush_state /\ frame_fwd /\ rx_valid /\ rx_last)
        => terminator_out

\* C10: Frame integrity count.  Since the last rst_lock, the number of
\* cycles with tx_valid and tx_last equals the number of cycles with
\* rx_valid and rx_last minus those of them that fell into flush_state.
FrameIntegrityCount == n_tx_last = n_rx_last - n_flush_last

\* the per-frame violation latches: all but volume and heartbeat
per_frame_latches ==
    <<violation_ttl, violation_wg_size, violation_plaintext,
      violation_ethertype, violation_arp_rate, violation_ip_proto,
      violation_arp_size, violation_frag, violation_ip_options,
      violation_arp_opcode, violation_land, violation_loopback,
      violation_tcp_flags, violation_tcp_options, violation_udp_len>>

\* C11: Flush suppresses the lock decision.  On a cycle with flush_state = 1
\* and no heartbeat violation latched, neither locked nor drop_current goes
\* from 0 to 1, whatever byte is presented (the rx_last byte that ends the
\* flush included).
FlushSuppressesLock ==
    [][(InCycle /\ flush_state /\ ~violation_heartbeat)
        => /\ (~locked => ~locked')
           /\ (~drop_current => ~drop_current')]_vars

\* C12: Flush idempotence.  On a cycle with flush_state = 1 no violation
\* latch other than violation_volume and violation_heartbeat goes from 0 to 1,
\* whatever ingress byte is presented.
FlushIdempotence ==
    [][(InCycle /\ flush_state)
        => \A i \in DOMAIN per_frame_latches :
              ~per_frame_latches[i] => ~per_frame_latches'[i]]_vars

\* a runt frame ends inside flush in ingress mode, no latch set yet
FlushIdempotenceWitness ==
    InCycle /\ flush_state /\ ~locked /\ ~rst_lock /\ ~egress_mode
        /\ rx_valid /\ rx_last /\ violation_now /\ ~traffic_violation

\* C13: Reset re-arms flush.  After any cycle with rst_lock = 1, flush_state
\* is 1, whatever the state and the ingress activity of that cycle.
ResetRearmsFlush == [][(InCycle /\ rst_lock) => flush_state']_vars

DropScope ==
    [][(InCycle /\ (rst_lock \/ (rx_fire /\ rx_last))) => ~drop_current']_vars

\* C19: Volume correctness.  When exactly VOLUME_LIMIT ingress bytes have
\* fired since the last reset (volume_cnt = VOLUME_LIMIT, not locked), the
\* next valid ingress byte is not forwarded, violation_volume is 1 after it,
\* and in ingress mode locked is 1 after it.  Stated for the plain case:
\* flush is over and the heartbeat is alive.
VolumeCorrectness ==
    [][(InCycle /\ ~rst_lock /\ ~locked /\ volume_cnt = VOLUME_LIMIT
            /\ ~flush_state /\ ~violation_heartbeat /\ heartbeat_toggled
            /\ rx_valid)
        => /\ ~(rx_valid /\ ~gate_tx)
           /\ violation_volume'
           /\ (~egress_mode => locked')]_vars

\* C15: Egress mode is drop-only.  On a cycle with egress_mode = 1 and no
\* heartbeat violation latched, locked does not go from 0 to 1, whatever
\* rule fires (runt and truncation at rx_last, volume, ARP rate, field rules).
EgressDropOnly ==
    [][(InCycle /\ egress_mode /\ ~violation_heartbeat /\ ~locked)
        => ~locked']_vars

\* a truncated IPv4 frame ends in egress mode
EgressDropOnlyWitness ==
    InCycle /\ egress_mode /\ ~locked /\ ~flush_state /\ ~rst_lock
        /\ rx_valid /\ rx_last /\ check_truncation /\ ~allow_truncation

\* C18: A valid frame passes untouched.  Every byte of the minimal IPv4/TCP
\* SYN frame, presented in ingress mode from a clean state (flush over,
\* unlocked, no latch set) with a live heartbeat and volume to spare, appears
\* on the egress the same cycle with its data and its rx_last, and leaves
\* locked and every violation latch at 0.
ValidFramePasses ==
    /\ [](InCycle /\ syn_byte_now /\ ~violation_heartbeat /\ allow_volume
            => /\ tx_valid /\ tx_data = rx_data /\ tx_last = rx_last
               /\ ~locked /\ ~traffic_violation)
    /\ [][(InCycle /\ syn_byte_now /\ ~violation_heartbeat /\ allow_volume
                /\ heartbeat_toggled)
            => (~locked' /\ ~traffic_violation' /\ ~violation_heartbeat')]_vars

\* the 54th and last byte of the valid frame is on the wire and forwarded
ValidFramePassesWitness ==
    InCycle /\ syn_byte_now /\ syn_sent = Len(TcpSyn) - 1 /\ rx_last
        /\ allow_volume /\ tx_valid /\ tx_last /\ tx_data = rx_data

\* C16: Frame isolation in egress mode.  After a cycle on which an rx_last
\* byte is consumed while unlocked in egress mode, drop_current and every
\* per-frame violation latch are 0, so nothing of the ended frame is held
\* against the frame that follows.
FrameIsolation ==
    [][(InCycle /\ egress_mode /\ ~locked /\ ~flush_state /\ rx_fire
            /\ rx_last)
        => /\ ~drop_current'
           /\ \A i \in DOMAIN per_frame_latches : ~per_frame_latches'[i]]_vars

\* tokens a minimal ARP frame puts into the bucket: its bytes after byte 13
arp_tokens_per_frame == Len(ArpRequest) - 14

\* whole frames the burst limit covers, and the tokens left over
arp_frames_in_limit == ARP_BURST_LIMIT \div arp_tokens_per_frame
arp_tokens_left == ARP_BURST_LIMIT % arp_tokens_per_frame

\* C20 as claimed: the first ARP_BURST_LIMIT ARP frames of a burst are
\* accepted; violation_arp_rate is not set before frame ARP_BURST_LIMIT + 1.
ArpBurstThresholdClaimed ==
    n_rx_last < ARP_BURST_LIMIT => ~violation_arp_rate

\* C20 as amended: in a burst of minimal ARP frames every fired byte after
\* the EtherType adds a token, so arp_bucket holds arp_tokens_per_frame
\* tokens per finished frame plus those of the frame on the wire; the frames
\* before number arp_frames_in_limit + 1 are forwarded,
\* violation_arp_rate is set in no earlier frame, and in that frame the rule
\* fails from the byte at which the bucket has reached ARP_BURST_LIMIT, which
\* in ingress mode locks the airlock.
ArpBurstThreshold ==
    /\ [](~locked => arp_bucket = n_rx_last * arp_tokens_per_frame
                        + (IF is_arp THEN byte_ptr - 14 ELSE 0))
    /\ [](InCycle /\ rx_valid
            /\ n_rx_last < arp_frames_in_limit
          => (tx_valid /\ tx_data = rx_data /\ ~violation_arp_rate))
    /\ [][(~violation_arp_rate /\ violation_arp_rate')
          => n_rx_last >= arp_frames_in_limit]_vars
    /\ [][(InCycle /\ rx_valid /\ ~locked
            /\ n_rx_last = arp_frames_in_limit
            /\ byte_ptr >= 14 + arp_tokens_left)
          => /\ ~allow_arp_rate /\ ~(rx_valid /\ ~gate_tx)
             /\ (~rx_last => violation_arp_rate')
             /\ (~egress_mode => locked')]_vars

\* the byte of the burst on which the bucket has reached the limit, in
\* ingress mode
ArpBurstThresholdWitness ==
    InCycle /\ rx_valid /\ ~locked /\ ~egress_mode /\ ~violation_arp_rate
        /\ is_arp /\ ~allow_arp_rate
        /\ n_rx_last = arp_frames_in_limit

\* C21: Egress integrity and order.  Every byte accepted at egress (tx_valid
\* and tx_ready) is either the ingress byte consumed on that same cycle, with
\* the same data and last flag, or the zero terminator (tx_data = 0x00,
\* tx_last = 1); the output is a function of the current cycle's pins, so no
\* byte is reordered, duplicated, delayed or made up.
EgressIntegrity ==
    (InCycle /\ tx_valid /\ tx_ready)
        => \/ (rx_fire /\ tx_data = rx_data /\ tx_last = rx_last)
           \/ (tx_data = 0 /\ tx_last)

\* a non-zero byte in the middle of a frame is accepted downstream
EgressIntegrityWitness ==
    InCycle /\ tx_valid /\ tx_ready /\ rx_fire /\ rx_data # 0 /\ ~rx_last
        /\ tx_data = rx_data

\* C22: Lossless when not gating.  On every cycle with gate_tx = 0, rx_ready
\* equals tx_ready, so an ingress byte is consumed exactly when it is
\* accepted at egress on that cycle: none is swallowed while the downstream
\* stalls, none is offered again after it was accepted.
LosslessWhenOpen ==
    (InCycle /\ ~gate_tx)
        => /\ rx_ready = tx_ready
           /\ rx_fire = (tx_valid /\ tx_ready)
           /\ (rx_valid => (tx_valid /\ tx_data = rx_data))

\* a byte is offered while the gate is open and the downstream stalls
LosslessWhenOpenWitness ==
    InCycle /\ ~gate_tx /\ rx_valid /\ ~tx_ready /\ ~rx_fire /\ tx_valid

\* C23: Lifecycle-scoped latches are irreversible.  Once violation_heartbeat
\* or violation_volume is 1 it is still 1 after every cycle on which
\* rst_lock = 0: a resumed heartbeat toggle, the end of a frame and flush do
\* not clear it.
LifecycleLatchesStick ==
    [][(InCycle /\ ~rst_lock)
        => /\ (violation_heartbeat => violation_heartbeat')
           /\ (violation_volume => violation_volume')]_vars

\* both latches set, no reset, the heartbeat toggles again and a frame ends
\* on a consumed byte
LifecycleLatchesStickWitness ==
    InCycle /\ ~rst_lock /\ violation_heartbeat /\ violation_volume
        /\ heartbeat_toggled /\ proc /\ rx_last

\* C30: Security response as asserted in verify/proof.py.  For every pair of
\* consecutive cycles, whatever rst_lock and rx_last were: if on the first
\* locked = 0 and violation_heartbeat = 1 then locked = 1 on the second;
\* otherwise, if on the first locked = 0 and a traffic violation latch was 1,
\* then on the second locked = 1 if egress_mode was 0 and drop_current = 1 if
\* egress_mode was 1.
ProofSecurityResponse ==
    [][(InCycle /\ ~locked)
        => IF violation_heartbeat THEN locked'
           ELSE IF traffic_violation
                THEN (IF ~egress_mode THEN locked' ELSE drop_current')
                ELSE TRUE]_vars

\* the byte on the wire belongs to a frame that is being parsed
parsing == InCycle /\ rx_valid /\ ~locked /\ ~flush_state

\* the single-offset rules as the rule table states them: which of them
\* byte d fails when it follows the bytes s of its frame
rule_table(s, d) ==
    LET k == Len(s)
    IN  [ip_options |-> k = 14 /\ is_ipv4_frame(s) /\ d # 69,
         frag_flags |-> k = 20 /\ is_ipv4_frame(s) /\ d \notin {0, 64},
         frag_offset |-> k = 21 /\ is_ipv4_frame(s) /\ d # 0,
         ttl |-> k = 22 /\ is_ipv4_frame(s) /\ d < 60,
         protocol |-> k = 23 /\ is_ipv4_frame(s) /\ d \notin {6, 17},
         loopback |-> k \in {26, 30} /\ is_ipv4_frame(s) /\ d = 127,
         land |-> k = 33 /\ is_ipv4_frame(s)
                    /\ <<Byte(s, 26), Byte(s, 27), Byte(s, 28), Byte(s, 29)>>
                          = <<Byte(s, 30), Byte(s, 31), Byte(s, 32), d>>,
         arp_opcode |-> k = 21 /\ is_arp_frame(s)
                    /\ ~(Byte(s, 20) = 0 /\ d \in {1, 2}),
         tcp_options |-> k = 46 /\ is_ipv4_frame(s) /\ Byte(s, 23) = 6
                    /\ d # 80,
         udp_len |-> k = 39 /\ is_ipv4_frame(s) /\ Byte(s, 23) = 17
                    /\ ~(256 * Byte(s, 38) + d >= 8
                         /\ 256 * Byte(s, 38) + d = frame_ip_len(s) - 20)]

\* the same rules as the code evaluates them on the byte on the wire
rules_firing ==
    [ip_options |-> check_ip_options /\ ~allow_ip_options,
     frag_flags |-> check_frag_flags /\ ~allow_frag_flags,
     frag_offset |-> check_frag_offset /\ ~allow_frag_offset,
     ttl |-> check_ttl /\ ~allow_ttl,
     protocol |-> check_protocol /\ ~allow_protocol,
     loopback |-> check_loopback /\ ~allow_loopback,
     land |-> check_land /\ ~allow_land,
     arp_opcode |-> check_arp_opcode /\ ~allow_arp_opcode,
     tcp_options |-> check_tcp_options /\ ~allow_tcp_options,
     udp_len |-> check_udp_len /\ ~allow_udp_len]

\* C24: Header-offset rules match the rule table.  For a frame consumed
\* outside flush each single-offset rule (version/IHL byte 14 = 0x45, fragment
\* byte 20 with only DF allowed, byte 21 = 0, TTL >= 60, protocol 6 or 17,
\* bytes 26 and 30 not 127, LAND at byte 33, ARP opcode 1 or 2, TCP byte
\* 46 = 0x50, UDP length >= 8 and equal to ip_len - 20) fires exactly when
\* the byte fails its condition, and in ingress mode locked = 1 on the cycle
\* after the offending byte.
HeaderRules ==
    /\ [](parsing => rules_firing = rule_table(frame_seen, rx_data))
    /\ [][(parsing /\ ~rst_lock /\ ~egress_mode
              /\ \E r \in DOMAIN rules_firing :
                    rule_table(frame_seen, rx_data)[r])
          => (violation_now /\ locked')]_vars

\* the last destination byte completes an address equal to the source, in
\* ingress mode with nothing held against the frame so far
HeaderRulesWitness ==
    parsing /\ ~rst_lock /\ ~egress_mode /\ ~traffic_violation
        /\ rule_table(frame_seen, rx_data).land /\ rules_firing.land

\* C25: EtherType classification.  For every frame consumed outside flush,
\* from byte 14 onward is_ip holds exactly when bytes 12-13 were 08 00 and
\* is_arp exactly when they were 08 06; the two are never set together; any
\* other EtherType fires the EtherType rule at byte 13 and locks the airlock
\* in ingress mode.
EtherTypeClassification ==
    /\ [](~(is_ip /\ is_arp))
    /\ [](Len(frame_seen) >= 14
            => /\ is_ip = is_ipv4_frame(frame_seen)
               /\ is_arp = is_arp_frame(frame_seen))
    /\ [][(parsing /\ Len(frame_seen) = 13
              /\ ~(Byte(frame_seen, 12) = 8 /\ rx_data \in {0, 6}))
          => /\ check_ethertype /\ ~allow_ethertype /\ violation_now
             /\ (~rst_lock /\ ~egress_mode => locked')]_vars

\* the opcode byte of an ARP frame is on the wire: is_arp set, is_ip clear
EtherTypeClassificationWitness ==
    parsing /\ Len(frame_seen) = 21 /\ is_arp_frame(frame_seen)
        /\ is_arp /\ ~is_ip

\* C26: TCP flag whitelist.  In an IPv4 frame with protocol 6, byte 47 is
\* accepted exactly when the 9-bit value made of the NS bit of byte 46 of the
\* same frame and the 8 bits of byte 47 is one of 0x002, 0x012, 0x010, 0x018,
\* 0x001, 0x011, 0x004, 0x014; every other value fires the rule and, in
\* ingress mode, leaves the airlock locked.
TcpFlagWhitelist ==
    [][(parsing /\ Len(frame_seen) = 47 /\ is_ipv4_frame(frame_seen)
            /\ Byte(frame_seen, 23) = 6)
        => LET flags == 256 * (Byte(frame_seen, 46) % 2) + rx_data
               listed == flags \in {2, 18, 16, 24, 1, 17, 4, 20}
           IN  /\ listed = ~(check_tcp_flags /\ ~allow_tcp_flags)
               /\ (~listed => violation_now)
               /\ (~listed /\ ~rst_lock /\ ~egress_mode => locked')]_vars

\* SYN with the NS bit set in byte 46: the value 0x102 is on the wire
TcpFlagWhitelistWitness ==
    parsing /\ Len(frame_seen) = 47 /\ is_ipv4_frame(frame_seen)
        /\ Byte(frame_seen, 23) = 6 /\ Byte(frame_seen, 46) = 81
        /\ rx_data = 2 /\ check_tcp_flags /\ ~allow_tcp_flags

\* the byte on the wire lies behind the IPv4 datagram of its frame
behind_datagram ==
    /\ is_ipv4_frame(frame_seen)
    /\ Len(frame_seen) >= 18
    /\ Len(frame_seen) >= 14 + frame_ip_len(frame_seen)

\* C28: Trailing garbage.  In ingress mode an IPv4 frame with a byte at
\* index >= 64 that also lies at or beyond 14 + ip_len is locked out
\* (locked = 1, status_led = 0), also when that byte is the frame's last;
\* padding beyond 14 + ip_len at indices below 64 does not fire the rule, and
\* does not disturb a well-formed frame.
TrailingGarbage ==
    /\ [][(parsing /\ ~rst_lock /\ ~egress_mode /\ behind_datagram
              /\ Len(frame_seen) >= 64)
          => (violation_now /\ locked' /\ ~status_led')]_vars
    /\ [](parsing /\ Len(frame_seen) < 64
            => ~(check_trailing /\ ~allow_trailing))
    /\ [](parsing /\ ~rst_lock /\ Len(frame_seen) < 64 /\ behind_datagram
              /\ Unvaried(frame_seen) /\ ~drop_current /\ ~traffic_violation
            => (~violation_now /\ tx_valid /\ tx_data = rx_data))

\* byte 64 of a well-formed frame padded to 64 bytes is on the wire as the
\* frame's last byte, in ingress mode
TrailingGarbageWitness ==
    parsing /\ ~rst_lock /\ ~egress_mode /\ behind_datagram
        /\ Len(frame_seen) = 64 /\ rx_last /\ Unvaried(frame_seen)
        /\ ~drop_current /\ ~traffic_violation

\* the last byte of a frame is on the wire and the frame is too short: at
\* most 14 bytes, or an IPv4 frame that ends inside its header, before byte
\* 14 + ip_len - 1, or with ip_len below 28 (40 for TCP)
ends_early ==
    /\ rx_last
    /\ \/ Len(frame_seen) < 14
       \/ /\ is_ipv4_frame(frame_seen)
          /\ \/ Len(frame_seen) < 18
             \/ Len(frame_seen) < 14 + frame_ip_len(frame_seen) - 1
             \/ frame_ip_len(frame_seen) < 28
             \/ /\ Len(frame_seen) >= 24
                /\ Byte(frame_seen, 23) = 6
                /\ frame_ip_len(frame_seen) < 40

\* C29: Frames that end too early.  A frame of at most 14 bytes consumed
\* outside flush, and an IPv4 frame whose rx_last comes before byte
\* 14 + ip_len - 1 or whose ip_len is below 28 (40 for TCP), raises a
\* violation on its rx_last cycle: in ingress mode locked = 1 on the next
\* cycle; in egress mode the last byte is replaced by the zero terminator
\* and locked stays 0.
EarlyEnd ==
    [][(parsing /\ ends_early)
        => /\ violation_now
           /\ (~egress_mode => locked')
           /\ (egress_mode => (terminator_out /\ ~locked'))]_vars

\* an IPv4 frame is cut inside its header in egress mode, on a non-zero byte
EarlyEndWitness ==
    parsing /\ ends_early /\ egress_mode /\ Len(frame_seen) = 20
        /\ is_ipv4_frame(frame_seen) /\ ~drop_current /\ ~traffic_violation
        /\ rx_data # 0

\* a printable byte as the plaintext rule defines it
printable(d) == d \in 32..126 \/ d \in {9, 10, 13}

Max(a, b) == IF a > b THEN a ELSE b

\* bytes of an IPv4 frame that precede its payload: Ethernet header and the
\* IPv4 header of IHL words
ip_payload_offset(s) == 14 + 4 * (Byte(s, 14) % 16)

\* the last 127 bytes consumed were printable bytes behind the IPv4 header
printable_run ==
    /\ Len(frame_seen) >= ip_payload_offset(frame_seen) + 127
    /\ \A i \in (Len(frame_seen) - 126)..Len(frame_seen) :
          printable(frame_seen[i])

\* C27: Plaintext rule.  Behind the IP header plaintext_cnt goes up by one
\* per printable byte and down by one per other byte (floor 0, ceiling 255),
\* and the rule fires on a printable byte exactly when plaintext_cnt >= 127;
\* so the 128th of a run of printable payload bytes fires it, which sets
\* violation_plaintext and, in ingress mode, locked before the frame ends,
\* while a frame whose count stays below 127 is never flagged by this rule.
PlaintextRule ==
    /\ [][(parsing /\ ~rst_lock /\ ~rx_last /\ Len(frame_seen) >= 15
              /\ is_ipv4_frame(frame_seen))
          => plaintext_cnt' =
                IF Len(frame_seen) < ip_payload_offset(frame_seen)
                THEN plaintext_cnt
                ELSE IF printable(rx_data) THEN Min(plaintext_cnt + 1, 255)
                ELSE Max(plaintext_cnt - 1, 0)]_vars
    /\ [](parsing /\ Len(frame_seen) >= 15 /\ is_ipv4_frame(frame_seen)
            => (check_plaintext /\ ~allow_plaintext)
                  = (printable(rx_data) /\ plaintext_cnt >= 127))
    /\ [][(parsing /\ ~rst_lock /\ Len(frame_seen) >= 15
              /\ is_ipv4_frame(frame_seen) /\ printable_run
              /\ printable(rx_data))
          => /\ violation_now
             /\ (~rx_last => violation_plaintext')
             /\ (~egress_mode => locked')]_vars

\* the 128th printable payload byte in a row is on the wire in ingress mode,
\* in the middle of the frame, with nothing held against the frame so far
PlaintextRuleWitness ==
    parsing /\ ~rst_lock /\ ~egress_mode /\ ~rx_last
        /\ Len(frame_seen) >= 15 /\ is_ipv4_frame(frame_seen)
        /\ printable_run /\ printable(rx_data)
        /\ plaintext_cnt = 127 /\ ~traffic_violation /\ ~drop_current

\* C31: Reset assertion of verify/proof.py.  On every cycle on which rst_lock
\* is asserted, locked is 0 in that same cycle.
ProofResetAssertion == (InCycle /\ rst_lock) => ~locked

\* C32: Watchdog decrement as asserted in verify/proof.py.  On every cycle
\* with rst_lock = 0: if watchdog_timer was above 0 on the cycle before and
\* heartbeat_in has the value it had on the cycle before, watchdog_timer is
\* its value of the cycle before minus one.  last_heartbeat is heartbeat_in
\* of the cycle before.
ProofWatchdogDecrement ==
    (InCycle /\ ~rst_lock /\ watchdog_timer_d > 0
        /\ last_heartbeat = heartbeat_in)
        => watchdog_timer = watchdog_timer_d - 1

\* C33: Watchdog expiry as asserted in verify/proof.py.  On every cycle with
\* rst_lock = 0: if watchdog_timer was 0 on the cycle before,
\* violation_heartbeat is 1.
ProofWatchdogExpiry ==
    (InCycle /\ ~rst_lock /\ watchdog_timer_d = 0) => violation_heartbeat

\* C34: End-of-frame parser reset.  After any cycle on which an rx_last byte
\* is consumed while unlocked, the per-frame parser state is at its reset
\* values: byte_ptr = 0, is_ip = 0, is_arp = 0, ip_len = 0, plaintext_cnt = 0,
\* ip_hdr_len = 5 and ip_proto = 0, whatever the frame's length and content.
ParserResetAtFrameEnd ==
    [][(InCycle /\ proc /\ rx_last)
        => /\ byte_ptr' = 0 /\ ~is_ip' /\ ~is_arp'
           /\ ip_len' = 0 /\ plaintext_cnt' = 0
           /\ ip_hdr_len' = 5 /\ ip_proto' = 0]_vars

\* a rule other than the truncation and runt checks fails on the byte on the
\* wire
other_rule_now ==
    rx_valid /\
      ( \/ (check_ethertype /\ ~allow_ethertype)
        \/ (check_ttl /\ ~allow_ttl)
        \/ (check_min_size /\ ~allow_min_size)
        \/ (check_trailing /\ ~allow_trailing)
        \/ (check_plaintext /\ ~allow_plaintext)
        \/ (check_volume /\ ~allow_volume)
        \/ (check_arp_rate /\ ~allow_arp_rate)
        \/ (check_protocol /\ ~allow_protocol)
        \/ (check_arp_size /\ ~allow_arp_size)
        \/ (check_frag_flags /\ ~allow_frag_flags)
        \/ (check_frag_offset /\ ~allow_frag_offset)
        \/ (check_ip_options /\ ~allow_ip_options)
        \/ (check_arp_opcode /\ ~allow_arp_opcode)
        \/ (check_land /\ ~allow_land)
        \/ (check_loopback /\ ~allow_loopback)
        \/ (check_tcp_flags /\ ~allow_tcp_flags)
        \/ (check_tcp_options /\ ~allow_tcp_options)
        \/ (check_udp_len /\ ~allow_udp_len) )

\* C35 as claimed: on the last byte of a frame being parsed only the
\* truncation and runt checks raise violation_now.
RuleSuppressionClaimed ==
    (parsing /\ rx_last /\ violation_now) => runt_or_truncated

\* C35 as amended: Rule suppression at end of frame.  When the last byte of
\* a frame is consumed while unlocked (no reset), no rule other than the
\* truncation and runt checks sets its latch: the per-frame latches other
\* than violation_wg_size are 0 after the cycle, violation_wg_size is 1 only
\* if truncation or runt fired, violation_volume keeps its value and
\* drop_current is 0.  The other rules still contribute to violation_now on
\* that byte: one that fails raises it, puts the zero terminator on the
\* egress and, in ingress mode, locks.
RuleSuppressionAtFrameEnd ==
    [][(InCycle /\ proc /\ rx_last /\ ~rst_lock)
        => /\ ~violation_ttl' /\ ~violation_plaintext'
           /\ ~violation_ethertype' /\ ~violation_arp_rate'
           /\ ~violation_ip_proto' /\ ~violation_arp_size'
           /\ ~violation_frag' /\ ~violation_ip_options'
           /\ ~violation_arp_opcode' /\ ~violation_land'
           /\ ~violation_loopback' /\ ~violation_tcp_flags'
           /\ ~violation_tcp_options' /\ ~violation_udp_len'
           /\ (violation_wg_size' => runt_or_truncated)
           /\ violation_volume' = violation_volume
           /\ ~drop_current'
           /\ (other_rule_now
                 => /\ violation_now
                    /\ tx_valid /\ tx_data = 0 /\ tx_last
                    /\ (~egress_mode => locked'))]_vars

\* the last byte of a frame that is neither a runt nor truncated sits behind
\* the datagram at offset 64: trailing garbage, in ingress mode, nothing held
\* against the frame so far
RuleSuppressionAtFrameEndWitness ==
    parsing /\ proc /\ rx_last /\ ~rst_lock /\ ~egress_mode
        /\ ~runt_or_truncated /\ check_trailing /\ other_rule_now
        /\ ~traffic_violation /\ ~drop_current

\* C36: ARP bucket increment and leak are independent.  On a cycle without
\* reset an ARP byte consumed while unlocked adds one to arp_bucket (below
\* 0xFFFF) and an expiry of the leak timer takes one off (above 0); when both
\* happen on the same cycle arp_bucket is unchanged, so no increment is lost.
ArpBucketIndependent ==
    [][(InCycle /\ ~rst_lock)
        => arp_bucket' = arp_bucket
                           + (IF proc /\ is_arp /\ arp_bucket < ARP_BUCKET_MAX
                              THEN 1 ELSE 0)
                           - (IF arp_leak_timer >= ARP_LEAK_INTERVAL
                                 /\ arp_bucket > 0
                              THEN 1 ELSE 0)]_vars

\* C37: Volume limit cannot be outlived.  In either mode, once volume_cnt
\* has reached VOLUME_LIMIT no ingress data byte is forwarded to the egress
\* until rst_lock, whatever frames follow, single-byte frames in egress mode
\* included.
VolumeLimitNotOutlived == (InCycle /\ spent_now) => ~forwarded_now

\* C38: No false watchdog lock.  With a heartbeat that changes value at
\* least once in every window of HEARTBEAT_TIMEOUT cycles (either edge),
\* from power-on and after every rst_lock, violation_heartbeat is never 1,
\* the timer never runs out, and every lock is the ingress-mode lock of a
\* traffic rule.
NoFalseWatchdogLock ==
    /\ [](~violation_heartbeat /\ watchdog_timer > 0)
    /\ [][(~locked /\ locked') => (~egress_mode /\ any_violation)]_vars

\* the last cycle the window leaves: HEARTBEAT_TIMEOUT - 1 quiet cycles
\* behind, the timer at 1, and the heartbeat falls back to 0
NoFalseWatchdogLockWitness ==
    InCycle /\ quiet = HEARTBEAT_TIMEOUT - 1 /\ watchdog_timer = 1
        /\ heartbeat_toggled /\ ~heartbeat_in /\ ~rst_lock /\ ~locked

\* C39: Saturating counters.  Within a frame byte_ptr never decreases and
\* never wraps: it is the offset of the byte on the wire up to its maximum
\* (0x1FFFF in the source) and stays there, rising by one per consumed byte
\* of the frame being parsed that is not the last, so that no header
\* offset comes round a second time in an oversized frame; plaintext_cnt
\* stays within 0..255.
SaturatingCounters ==
    /\ [](byte_ptr \in 0..BYTE_PTR_MAX /\ plaintext_cnt \in 0..255)
    /\ [](volume_cnt < giant_frame_len
            => byte_ptr = Min(volume_cnt, BYTE_PTR_MAX))
    /\ [][(InCycle /\ proc /\ ~flush_state /\ ~rx_last)
            => /\ byte_ptr' = Min(byte_ptr + 1, BYTE_PTR_MAX)
               /\ plaintext_cnt' \in {Min(plaintext_cnt + 1, 255),
                                      Max(plaintext_cnt - 1, 0),
                                      plaintext_cnt}]_vars
    /\ [][(InCycle /\ ~(proc /\ rx_last)) => byte_ptr' >= byte_ptr]_vars

\* both counters at their maximum and one more byte of the frame consumed
SaturatingCountersWitness ==
    InCycle /\ proc /\ ~flush_state /\ ~rx_last /\ is_ip
        /\ byte_ptr = BYTE_PTR_MAX /\ plaintext_cnt = 255
        /\ is_printable

====
